---------------------------- MODULE Spec2Model ----------------------------
(***************************************************************************)
(* A model of Amulet-Core's paletted anvil chunk interface                 *)
(* (Anvil1444Interface), the LevelDB 9 / 21 meta interfaces and the        *)
(* schematic reader / writer.                                              *)
(*                                                                         *)
(* Strings are sequences of atoms (":" is an atom of its own), a dict is a *)
(* set of <<key, value>> pairs with distinct keys, a TAG_Compound is a     *)
(* record with a Has<Key> flag per optional key, a numpy array of shape    *)
(* (S, S, S) is a function over the triples of 0..S-1, a 64-bit long is a  *)
(* tuple of 64 bits, least significant first.                              *)
(***************************************************************************)
EXTENDS Integers, Sequences, FiniteSets, TLC

VARIABLES
    \* ---- Anvil1444Interface._decode_blocks / _encode_blocks
    disk,               \* what the save holds: per section its cy, palette entries and cell indices
    long_array_format,  \* self._features["long_array_format"] of the decoding interface
    chunk_sections,     \* the Dict[int, TAG_Compound] handed to _decode_blocks (popped in place)
    chunk,              \* chunk.blocks, with whether it has been assigned
    np_palette,         \* the palette _decode_blocks returns
    pc,                 \* "loaded" | "decoded" | "failed" | "encoded"
    enc_format,         \* self._features["long_array_format"] of the encoding interface
    enc_range,          \* <<cy_min, cy_max>> of the _encode_blocks call
    sections,           \* the Dict[int, TAG_Compound] _encode_blocks fills
    packed              \* per emitted cy: the indices handed to encode_long_array and the width it chose

anvil_vars == <<disk, long_array_format, chunk_sections, chunk, np_palette, pc,
                enc_format, enc_range, sections, packed>>

VARIABLES
    \* ---- Anvil1444Interface._encode_palette / _decode_palette
    p_block,            \* the Block handed to _encode_palette
    p_list,             \* the TAG_List _encode_palette returned
    p_out,              \* what _decode_palette made of it
    p_pc                \* "block" | "encoded" | "decoded"

palette_vars == <<p_block, p_list, p_out, p_pc>>

VARIABLES
    \* ---- the interfaces' constructors, minor_is_valid and _decode_status
    iface,              \* which class was constructed
    features,           \* its feature table
    parent_features,    \* the table as super().__init__() left it
    compound,           \* the chunk compound handed to _decode_status
    chunk_status,       \* chunk.status, with whether it has been assigned
    version_key,        \* the key last handed to minor_is_valid
    version_valid       \* what it returned

iface_vars == <<iface, features, parent_features, compound, chunk_status,
                version_key, version_valid>>

VARIABLES
    \* ---- SchematicWriter / SchematicReader
    w_shape,            \* selection.shape of the writer
    w_blocks,           \* SchematicWriter._blocks
    w_writes,           \* how many sections were written
    s_file,             \* the saved file: Blocks and AddBlocks
    r_blocks,           \* the block array SchematicReader builds
    s_pc                \* "open" | "closed" | "close_failed" | "read" | "read_failed"

schematic_vars == <<w_shape, w_blocks, w_writes, s_file, r_blocks, s_pc>>

vars == <<anvil_vars, palette_vars, iface_vars, schematic_vars>>

----------------------------------------------------------------------------
(* Arithmetic                                                              *)

Max2(a, b) == IF a >= b THEN a ELSE b

RECURSIVE Pow2(_)
Pow2(k) == IF k = 0 THEN 1 ELSE 2 * Pow2(k - 1)

\* int.bit_length()
RECURSIVE BitLength(_)
BitLength(n) == IF n <= 0 THEN 0 ELSE 1 + BitLength(n \div 2)

SeqMax(s) == CHOOSE m \in {s[i] : i \in DOMAIN s} : \A i \in DOMAIN s : s[i] <= m

CeilDiv(a, b) == (a + b - 1) \div b

----------------------------------------------------------------------------
(* Strings and Blocks                                                      *)

Colon == ":"

Alphabet == <<":", "air", "dirt", "facing", "minecraft", "mod", "north", "south", "stone">>

AtomRank(a) == CHOOSE i \in DOMAIN Alphabet : Alphabet[i] = a

RECURSIVE StrLess(_, _)
StrLess(s, t) ==
    IF t = <<>> THEN FALSE
    ELSE IF s = <<>> THEN TRUE
    ELSE IF s[1] = t[1] THEN StrLess(Tail(s), Tail(t))
    ELSE AtomRank(s[1]) < AtomRank(t[1])

\* a dict as the string of its items in key order
RECURSIVE PropsStr(_)
PropsStr(props) ==
    IF props = {} THEN <<>>
    ELSE LET first == CHOOSE p \in props : \A q \in props : AtomRank(p[1]) <= AtomRank(q[1])
         IN <<first[1], first[2]>> \o PropsStr(props \ {first})

Block(namespace, base_name, properties) ==
    [namespace |-> namespace, base_name |-> base_name, properties |-> properties]

\* the total order numpy.unique sorts Blocks by
BlockLess(a, b) ==
    \/ StrLess(a.namespace, b.namespace)
    \/ /\ a.namespace = b.namespace
       /\ \/ StrLess(a.base_name, b.base_name)
          \/ /\ a.base_name = b.base_name
             /\ StrLess(PropsStr(a.properties), PropsStr(b.properties))

AirBlock == Block(<<"minecraft">>, <<"air">>, {})

MinecraftAir == <<"minecraft", ":", "air">>

----------------------------------------------------------------------------
(* Palette entries                                                         *)

\* the split that keeps a name without ":" as a base name of no namespace
RECURSIVE SplitOrKeep(_, _)
SplitOrKeep(name, i) ==
    IF i > Len(name) THEN [ok |-> TRUE, namespace |-> <<>>, base_name |-> name]
    ELSE IF name[i] = Colon
         THEN [ok |-> TRUE,
               namespace |-> SubSeq(name, 1, i - 1),
               base_name |-> SubSeq(name, i + 1, Len(name))]
         ELSE SplitOrKeep(name, i + 1)

\* the split at the last ":" (rsplit) instead of the first
SplitAtLast(name, i) ==
    LET colons == {k \in DOMAIN name : name[k] = Colon}
        last == CHOOSE k \in colons : \A m \in colons : m <= k
    IN IF colons = {} THEN [ok |-> FALSE, namespace |-> <<>>, base_name |-> <<>>]
       ELSE [ok |-> TRUE,
             namespace |-> SubSeq(name, 1, last - 1),
             base_name |-> SubSeq(name, last + 1, Len(name))]

\* str.split(":", 1) unpacked into two names
RECURSIVE SplitAt(_, _)
SplitAt(name, i) ==
    IF i > Len(name) THEN [ok |-> FALSE, namespace |-> <<>>, base_name |-> <<>>]
    ELSE IF name[i] = Colon
         THEN [ok |-> TRUE,
               namespace |-> SubSeq(name, 1, i - 1),
               base_name |-> SubSeq(name, i + 1, Len(name))]
         ELSE SplitAt(name, i + 1)

RECURSIVE decode_palette_from(_, _, _)
decode_palette_from(palette, i, blockstates) ==
    IF i > Len(palette) THEN [ok |-> TRUE, blocks |-> blockstates]
    ELSE LET entry == palette[i]
             name  == SplitAt(entry.Name, 1)
             properties == IF entry.HasProperties THEN entry.Properties ELSE {}
         IN IF ~name.ok THEN [ok |-> FALSE, blocks |-> <<>>]
            ELSE decode_palette_from(palette, i + 1,
                     Append(blockstates, Block(name.namespace, name.base_name, properties)))

decode_palette(palette) == decode_palette_from(palette, 1, <<>>)

encode_entry(block) ==
    [Name |-> block.namespace \o <<Colon>> \o block.base_name,
     HasProperties |-> TRUE,
     Properties |-> block.properties]

encode_palette(blockstates) == [i \in 1..Len(blockstates) |-> encode_entry(blockstates[i])]

----------------------------------------------------------------------------
(* The long array codec                                                    *)

WordBits == 64

Bit(v, j) == (v \div Pow2(j)) % 2

\* the position in the bit stream of bit j of entry i
BitPos(i, j, bits, dense) ==
    IF dense THEN i * bits + j
    ELSE LET per_word == WordBits \div bits
         IN (i \div per_word) * WordBits + ((i % per_word) * bits) + j

WordsNeeded(size, bits, dense) ==
    IF dense THEN CeilDiv(size * bits, WordBits)
    ELSE CeilDiv(size, WordBits \div bits)

\* the entry and bit stored at position p of the stream, or <<-1, 0>> for padding
SlotOf(p, bits, dense) ==
    IF dense THEN <<p \div bits, p % bits>>
    ELSE LET per_word == WordBits \div bits
             off == p % WordBits
         IN IF off \div bits >= per_word THEN <<-1, 0>>
            ELSE <<((p \div WordBits) * per_word) + (off \div bits), off % bits>>

pack_long_array(values, bits, dense) ==
    [w \in 1..WordsNeeded(Len(values), bits, dense) |->
        [k \in 1..WordBits |->
            LET slot == SlotOf((w - 1) * WordBits + (k - 1), bits, dense)
            IN IF slot[1] >= 0 /\ slot[1] < Len(values)
               THEN Bit(values[slot[1] + 1], slot[2]) ELSE 0]]

encode_bits(values, min_bits_per_entry) ==
    Max2(Max2(min_bits_per_entry, BitLength(SeqMax(values))), 1)

encode_long_array(values, dense, min_bits_per_entry) ==
    pack_long_array(values, encode_bits(values, min_bits_per_entry), dense)

RECURSIVE EntryValue(_, _, _, _, _)
EntryValue(words, i, j, bits, dense) ==
    IF j >= bits THEN 0
    ELSE LET p == BitPos(i, j, bits, dense)
         IN words[(p \div WordBits) + 1][(p % WordBits) + 1] * Pow2(j)
            + EntryValue(words, i, j + 1, bits, dense)

decode_long_array(words, size, bits, dense) ==
    IF bits <= 0 \/ Len(words) < WordsNeeded(size, bits, dense)
    THEN [ok |-> FALSE, values |-> <<>>]
    ELSE [ok |-> TRUE,
          values |-> [i \in 1..size |-> EntryValue(words, i - 1, 0, bits, dense)]]

----------------------------------------------------------------------------
(* numpy                                                                   *)

SectionSide == 3

SectionCells == SectionSide * SectionSide * SectionSide

Coords == (0..SectionSide - 1) \X (0..SectionSide - 1) \X (0..SectionSide - 1)

\* flat.reshape((S, S, S)), flat given with 1-based positions
reshape(flat) ==
    [c \in Coords |-> flat[c[1] * SectionSide * SectionSide + c[2] * SectionSide + c[3] + 1]]

\* array.ravel()
ravel(array) ==
    [f \in 1..SectionCells |->
        array[<<(f - 1) \div (SectionSide * SectionSide),
                ((f - 1) \div SectionSide) % SectionSide,
                (f - 1) % SectionSide>>]]

\* numpy.transpose(array, axes): axis n of the result is axis axes[n] of array
transpose(array, axes) ==
    [c \in Coords |->
        array[[m \in 1..3 |-> c[CHOOSE n \in 1..3 : axes[n] = m - 1]]]]

\* numpy.unique(seq, return_inverse=True) under the order Less
unique_blocks(seq) ==
    LET distinct == {seq[i] : i \in DOMAIN seq}
        rank(b) == Cardinality({d \in distinct : BlockLess(d, b)})
    IN [values  |-> [k \in 1..Cardinality(distinct) |->
                        CHOOSE d \in distinct : rank(d) = k - 1],
        inverse |-> [i \in DOMAIN seq |-> rank(seq[i])]]

unique_ints(seq) ==
    LET distinct == {seq[i] : i \in DOMAIN seq}
        rank(v) == Cardinality({d \in distinct : d < v})
    IN [values  |-> [k \in 1..Cardinality(distinct) |->
                        CHOOSE d \in distinct : rank(d) = k - 1],
        inverse |-> [i \in DOMAIN seq |-> rank(seq[i])]]


----------------------------------------------------------------------------
(* Anvil1444Interface._decode_blocks                                       *)

MinBitsPerEntry == 4

ValidFormats == {"compact", "1.16"}

\* the width taken from the palette's length instead of its largest index
decode_bits_of_len(palette_len) == Max2(MinBitsPerEntry, BitLength(palette_len))

\* max(4, (len(section_palette) - 1).bit_length())
decode_bits(palette_len) == Max2(MinBitsPerEntry, BitLength(palette_len - 1))

\* the (2, 0, 1) of numpy.transpose in _decode_blocks
DecodeAxes == <<2, 0, 1>>

\* the decoder's axes used again by the encoder
EncodeAxesAsDecoded == <<2, 0, 1>>

\* the (1, 2, 0) of numpy.transpose in _encode_blocks
EncodeAxes == <<1, 2, 0>>

\* the offset that forgets the air entry the palette starts with
section_offset_less_air(palette) == Len(palette) - 1

\* the "+ len(palette)" that moves a section's indices behind the palette so far
section_offset(palette) == Len(palette)

DecodeRaised(secs) == [ok |-> FALSE, secs |-> secs, blocks |-> <<>>, palette |-> <<>>]

\* the loop over chunk_sections.items(), from item i on
RECURSIVE decode_sections(_, _, _, _, _)
decode_sections(secs, i, blocks, palette, format) ==
    IF i > Len(secs)
    THEN [ok |-> TRUE, secs |-> secs, blocks |-> blocks, palette |-> palette]
    ELSE LET section == secs[i] IN
         IF ~section.HasPalette
         THEN decode_sections(secs, i + 1, blocks, palette, format)
         ELSE LET no_palette == [secs EXCEPT ![i].HasPalette = FALSE, ![i].Palette = <<>>]
                  section_palette == decode_palette(section.Palette)
              IN IF ~section_palette.ok THEN DecodeRaised(no_palette)
                 ELSE IF format \notin ValidFormats THEN DecodeRaised(no_palette)
                 ELSE IF ~section.HasBlockStates THEN DecodeRaised(no_palette)
                 ELSE LET no_states == [no_palette EXCEPT ![i].HasBlockStates = FALSE,
                                                          ![i].BlockStates = <<>>]
                          decoded == decode_long_array(section.BlockStates, SectionCells,
                                         decode_bits(Len(section_palette.blocks)),
                                         format = "compact")
                      IN IF ~decoded.ok THEN DecodeRaised(no_states)
                         ELSE LET moved == [f \in 1..SectionCells |->
                                               decoded.values[f] + section_offset(palette)]
                                  array == transpose(reshape(moved), DecodeAxes)
                              IN decode_sections(no_states, i + 1,
                                     (section.cy :> array) @@ blocks,
                                     palette \o section_palette.blocks, format)

decode_blocks(secs, format) ==
    LET read == decode_sections(secs, 1, <<>>, <<AirBlock>>, format)
        merged == unique_blocks(read.palette)
    IN IF ~read.ok THEN read
       ELSE IF \E cy \in DOMAIN read.blocks : \E c \in Coords :
                   read.blocks[cy][c] >= Len(read.palette)
       THEN DecodeRaised(read.secs)
       ELSE [ok |-> TRUE, secs |-> read.secs,
             blocks |-> [cy \in DOMAIN read.blocks |->
                            [c \in Coords |-> merged.inverse[read.blocks[cy][c] + 1]]],
             palette |-> merged.values]

----------------------------------------------------------------------------
(* Anvil1444Interface._encode_blocks                                       *)

EmptyCompound ==
    [HasBlockStates |-> FALSE, BlockStates |-> <<>>, HasPalette |-> FALSE, Palette |-> <<>>]

\* the test that leaves a section out of the output
is_air_only(sub_palette) == Len(sub_palette) = 1 /\ sub_palette[1].Name = MinecraftAir

\* the loop over range(cy_min, cy_max), from cy on; out carries the sections dict
\* and, per cy, what was handed to encode_long_array
RECURSIVE encode_range(_, _, _, _, _, _)
encode_range(out, blocks, palette, cy, cy_max, format) ==
    IF cy >= cy_max THEN out
    ELSE IF cy \notin DOMAIN blocks
    THEN encode_range(out, blocks, palette, cy + 1, cy_max, format)
    ELSE LET block_sub_array == ravel(transpose(blocks[cy], EncodeAxes))
             local == unique_ints(block_sub_array)
             sub_palette == encode_palette(
                 [i \in 1..Len(local.values) |-> palette[local.values[i] + 1]])
         IN IF is_air_only(sub_palette)
            THEN encode_range(out, blocks, palette, cy + 1, cy_max, format)
            ELSE LET section == IF cy \in DOMAIN out.sections
                                THEN out.sections[cy] ELSE EmptyCompound
                     dense == format = "compact"
                     with_states ==
                         IF format \in ValidFormats
                         THEN [section EXCEPT
                                 !.HasBlockStates = TRUE,
                                 !.BlockStates =
                                     encode_long_array(local.inverse, dense, MinBitsPerEntry)]
                         ELSE section
                     trace == IF format \in ValidFormats
                              THEN (cy :> [values |-> local.inverse, dense |-> dense,
                                           bits |-> encode_bits(local.inverse, MinBitsPerEntry)])
                                   @@ out.packed
                              ELSE out.packed
                 IN encode_range(
                        [sections |-> (cy :> [with_states EXCEPT !.HasPalette = TRUE,
                                                                 !.Palette = sub_palette])
                                      @@ out.sections,
                         packed |-> trace],
                        blocks, palette, cy + 1, cy_max, format)

encode_blocks(secs, blocks, palette, cy_min, cy_max, format) ==
    encode_range([sections |-> secs, packed |-> <<>>], blocks, palette, cy_min, cy_max, format)


----------------------------------------------------------------------------
(* The saves the interface is run on                                       *)

MaxSections == 2

Namespaces == << <<"minecraft">>, <<"mod">> >>
BaseNames  == << <<"air">>, <<"stone">>, <<"dirt">> >>
PropSets   == << {}, {<<"facing", "north">>}, {<<"facing", "south">>} >>

UniverseSize == Len(Namespaces) * Len(BaseNames) * Len(PropSets)

\* block 0 is minecraft:air, block 6 is minecraft:air with a property
UniverseBlock(i) ==
    Block(Namespaces[(i % Len(Namespaces)) + 1],
          BaseNames[((i \div Len(Namespaces)) % Len(BaseNames)) + 1],
          PropSets[((i \div (Len(Namespaces) * Len(BaseNames))) % Len(PropSets)) + 1])

\* a palette entry as the game writes it: no Properties key for a block without properties
disk_entry(block) ==
    [Name |-> block.namespace \o <<Colon>> \o block.base_name,
     HasProperties |-> block.properties # {},
     Properties |-> block.properties]

\* the sections a save is built from: the palette is size blocks of the universe
\* from start on, the cells cycle through used of its entries from first on
SectionShapes == <<
    [flaw |-> "no_palette", start |-> 0, size |-> 1,  first |-> 0, used |-> 1],
    [flaw |-> "none",       start |-> 0, size |-> 1,  first |-> 0, used |-> 1],
    [flaw |-> "none",       start |-> 0, size |-> 2,  first |-> 0, used |-> 1],
    [flaw |-> "none",       start |-> 0, size |-> 3,  first |-> 0, used |-> 3],
    [flaw |-> "none",       start |-> 2, size |-> 1,  first |-> 0, used |-> 1],
    [flaw |-> "none",       start |-> 1, size |-> 16, first |-> 0, used |-> 16],
    [flaw |-> "none",       start |-> 0, size |-> 17, first |-> 0, used |-> 17],
    [flaw |-> "none",       start |-> 0, size |-> 17, first |-> 1, used |-> 16],
    [flaw |-> "none",       start |-> 6, size |-> 1,  first |-> 0, used |-> 1],
    [flaw |-> "none",       start |-> 2, size |-> 3,  first |-> 1, used |-> 2],
    [flaw |-> "bad_name",   start |-> 2, size |-> 2,  first |-> 0, used |-> 2],
    [flaw |-> "short",      start |-> 2, size |-> 2,  first |-> 0, used |-> 2],
    [flaw |-> "no_states",  start |-> 2, size |-> 2,  first |-> 0, used |-> 2],
    [flaw |-> "index",      start |-> 2, size |-> 2,  first |-> 0, used |-> 2] >>

Strides == {1, 3}

FormatValues == {"compact", "1.16", "none"}

disk_section(shape, cy) ==
    [cy |-> cy,
     HasPalette |-> shape.flaw # "no_palette",
     flaw |-> shape.flaw,
     palette |-> [i \in 1..shape.size |->
                    IF shape.flaw = "bad_name" /\ i = 1
                    THEN [Name |-> <<"stone">>, HasProperties |-> FALSE, Properties |-> {}]
                    ELSE disk_entry(UniverseBlock((shape.start + i - 1) % UniverseSize))],
     cells |-> [f \in 1..SectionCells |->
                    IF shape.flaw = "index" /\ f = 1 THEN shape.size
                    ELSE shape.first + ((f - 1) % shape.used)]]

DiskChunks ==
    {[j \in 1..n |->
         disk_section(SectionShapes[((k + (j - 1) * d - 1) % Len(SectionShapes)) + 1],
                      IF rev THEN n - j ELSE j - 1)] :
        k \in DOMAIN SectionShapes, d \in Strides, n \in 0..MaxSections, rev \in BOOLEAN}

\* the TAG_Compound of a section as the game wrote it under the layout of format
section_tag(sec, format) ==
    LET bits  == Max2(MinBitsPerEntry, BitLength(Len(sec.palette) - 1))
        words == pack_long_array(sec.cells, bits, format # "1.16")
    IN [cy |-> sec.cy,
        HasPalette |-> sec.HasPalette,
        Palette |-> IF sec.HasPalette THEN sec.palette ELSE <<>>,
        HasBlockStates |-> sec.HasPalette /\ sec.flaw # "no_states",
        BlockStates |-> IF ~sec.HasPalette \/ sec.flaw = "no_states" THEN <<>>
                        ELSE IF sec.flaw = "short" THEN SubSeq(words, 1, Len(words) - 1)
                        ELSE words]

----------------------------------------------------------------------------
(* The chunk life cycle                                                    *)

AnvilInit ==
    /\ disk \in DiskChunks
    /\ long_array_format \in FormatValues
    /\ chunk_sections = [j \in DOMAIN disk |-> section_tag(disk[j], long_array_format)]
    /\ chunk = [has_blocks |-> FALSE, blocks |-> <<>>]
    /\ np_palette = <<>>
    /\ pc = "loaded"
    /\ enc_format = "none"
    /\ enc_range = <<0, 0>>
    /\ sections = <<>>
    /\ packed = <<>>

DecodeBlocks ==
    /\ pc = "loaded"
    /\ LET result == decode_blocks(chunk_sections, long_array_format)
       IN /\ chunk_sections' = result.secs
          /\ IF result.ok
             THEN /\ chunk' = [has_blocks |-> TRUE, blocks |-> result.blocks]
                  /\ np_palette' = result.palette
                  /\ pc' = "decoded"
             ELSE /\ UNCHANGED <<chunk, np_palette>>
                  /\ pc' = "failed"
    /\ UNCHANGED <<disk, long_array_format, enc_format, enc_range, sections, packed>>
    /\ UNCHANGED <<palette_vars, iface_vars, schematic_vars>>

EncodeBlocks(format, cy_min, cy_max) ==
    /\ pc = "decoded"
    /\ LET out == encode_blocks(<<>>, chunk.blocks, np_palette, cy_min, cy_max, format)
       IN /\ sections' = out.sections
          /\ packed' = out.packed
    /\ enc_format' = format
    /\ enc_range' = <<cy_min, cy_max>>
    /\ pc' = "encoded"
    /\ UNCHANGED <<disk, long_array_format, chunk_sections, chunk, np_palette>>
    /\ UNCHANGED <<palette_vars, iface_vars, schematic_vars>>

AnvilIdle ==
    /\ disk = <<>>
    /\ long_array_format = "compact"
    /\ chunk_sections = <<>>
    /\ chunk = [has_blocks |-> FALSE, blocks |-> <<>>]
    /\ np_palette = <<>>
    /\ pc = "idle"
    /\ enc_format = "none"
    /\ enc_range = <<0, 0>>
    /\ sections = <<>>
    /\ packed = <<>>

AnvilNext ==
    \/ DecodeBlocks
    \/ \E format \in FormatValues, cy_min \in 0..MaxSections, cy_max \in 0..MaxSections :
           cy_min <= cy_max /\ EncodeBlocks(format, cy_min, cy_max)

----------------------------------------------------------------------------
(* One Block through _encode_palette and _decode_palette                   *)

RoundTripNamespaces == {<<>>, <<"minecraft">>, <<"mod">>, <<"mod", ":", "x">>}

RoundTripBaseNames == {<<"air">>, <<"stone">>, <<"oak", ":", "log">>}

PropertyKeys == {"facing", "half"}

PropertyValues == {"north", "top"}

\* the dicts over the keys: no key twice
PropertyMaps ==
    {m \in SUBSET (PropertyKeys \X PropertyValues) :
        \A p \in m, q \in m : p[1] = q[1] => p = q}

RoundTripBlocks ==
    {Block(n, b, m) : n \in RoundTripNamespaces, b \in RoundTripBaseNames, m \in PropertyMaps}

PaletteIdle ==
    /\ p_block = AirBlock
    /\ p_list = <<>>
    /\ p_out = [ok |-> FALSE, blocks |-> <<>>]
    /\ p_pc = "idle"

PaletteInit ==
    /\ p_block \in RoundTripBlocks
    /\ p_list = <<>>
    /\ p_out = [ok |-> FALSE, blocks |-> <<>>]
    /\ p_pc = "block"

EncodePalette ==
    /\ p_pc = "block"
    /\ p_list' = encode_palette(<<p_block>>)
    /\ p_pc' = "encoded"
    /\ UNCHANGED <<p_block, p_out>>
    /\ UNCHANGED <<anvil_vars, iface_vars, schematic_vars>>

DecodePalette ==
    /\ p_pc = "encoded"
    /\ p_out' = decode_palette(p_list)
    /\ p_pc' = "decoded"
    /\ UNCHANGED <<p_block, p_list>>
    /\ UNCHANGED <<anvil_vars, iface_vars, schematic_vars>>

PaletteNext == EncodePalette \/ DecodePalette

----------------------------------------------------------------------------
(* The interfaces: feature tables, minor_is_valid, _decode_status          *)

\* BaseAnvilInterface._set_feature
set_feature(table, feature, option) == [table EXCEPT ![feature] = option]

\* the _set_feature calls of Anvil1444Interface.__init__, in order
Anvil1444Overrides == <<
    <<"light_populated", "None">>,
    <<"terrain_populated", "None">>,
    <<"status", "Java_13">>,
    <<"blocks", "Sections|(BlockStates,Palette)">>,
    <<"long_array_format", "compact">>,
    <<"liquid_ticks", "list">>,
    <<"liquids_to_be_ticked", "16list|list">>,
    <<"to_be_ticked", "16list|list">>,
    <<"post_processing", "16list|list">>,
    <<"structures", "compound">> >>

RECURSIVE set_features(_, _, _)
set_features(table, overrides, i) ==
    IF i > Len(overrides) THEN table
    ELSE set_features(set_feature(table, overrides[i][1], overrides[i][2]), overrides, i + 1)

\* the constructor with super().__init__() run after its own _set_feature calls
anvil_1444_init_parent_last(parent) == [f \in DOMAIN parent |-> parent[f]]

\* Anvil1444Interface.__init__ after super().__init__() left parent
anvil_1444_init(parent) == set_features(parent, Anvil1444Overrides, 1)

\* LevelDB21Interface.__init__ after super().__init__() left parent
leveldb_21_init(parent) == ("chunk_version" :> 21) @@ parent

\* LevelDB9Interface.__init__ after super().__init__() left parent
leveldb_9_init(parent) ==
    ("entity_format" :> "namespace-str-identifier") @@ (("chunk_version" :> 9) @@ parent)

\* the range closed at its upper end
minor_is_valid_closed(key) == 1444 <= key /\ key <= 1466

\* 1444 <= key < 1466
minor_is_valid(key) == 1444 <= key /\ key < 1466

\* BaseAnvilInterface.get_obj: the tag under the key when it has the asked type,
\* the default otherwise
get_obj(obj, dtype, default) ==
    IF obj.HasStatus /\ obj.Status.kind = dtype THEN obj.Status ELSE default

\* _decode_status with an empty TAG_String() as the default
decode_status_empty_default(obj) ==
    IF obj.HasStatus /\ obj.Status.kind = "TAG_String" THEN obj.Status.value ELSE ""

\* the value _decode_status assigns to chunk.status
decode_status(obj) ==
    get_obj(obj, "TAG_String", [kind |-> "TAG_String", value |-> "full"]).value

\* the tables the parent constructors may leave: two options per feature
AnvilParentOptions ==
    [light_populated      |-> <<"byte", "None">>,
     terrain_populated    |-> <<"byte", "None">>,
     status               |-> <<"None", "Java_13">>,
     blocks               |-> <<"Sections|(Blocks,Data,Add)", "None">>,
     long_array_format    |-> <<"None", "1.16">>,
     liquid_ticks         |-> <<"None", "list">>,
     liquids_to_be_ticked |-> <<"None", "16list|list">>,
     to_be_ticked         |-> <<"None", "list">>,
     post_processing      |-> <<"None", "list">>,
     structures           |-> <<"None", "compound">>,
     data_version         |-> <<"int", "None">>,
     last_update          |-> <<"long", "None">>,
     entities             |-> <<"list", "None">>,
     tile_ticks           |-> <<"list", "None">>]

LevelDBParentOptions ==
    [chunk_version   |-> <<20, 8>>,
     entity_format   |-> <<"int-id", "str-id">>,
     finalised_state |-> <<"int0-2", "None">>,
     terrain         |-> <<"2farray", "30array">>]

\* the first option everywhere but on the features of differ
ParentTables(options) ==
    {[f \in DOMAIN options |-> IF f \in differ THEN options[f][2] ELSE options[f][1]] :
        differ \in {{}} \cup {{f} : f \in DOMAIN options} \cup {DOMAIN options}}

StatusCompounds ==
    {[HasStatus |-> FALSE, Status |-> [kind |-> "TAG_String", value |-> ""]],
     [HasStatus |-> TRUE,  Status |-> [kind |-> "TAG_Int", value |-> "7"]]}
    \cup {[HasStatus |-> TRUE, Status |-> [kind |-> "TAG_String", value |-> v]] :
             v \in {"", "empty", "features", "full"}}

KeyMargin == 4

VersionKeys == ((1444 - KeyMargin)..(1466 + KeyMargin)) \cup {2000}

IfaceIdle ==
    /\ iface = "idle"
    /\ features = <<>>
    /\ parent_features = <<>>
    /\ compound = [HasStatus |-> FALSE, Status |-> [kind |-> "TAG_String", value |-> ""]]
    /\ chunk_status = [assigned |-> FALSE, value |-> ""]
    /\ version_key = 0
    /\ version_valid = FALSE

IfaceInit ==
    /\ iface = "none"
    /\ features = <<>>
    /\ parent_features = <<>>
    /\ compound \in StatusCompounds
    /\ chunk_status = [assigned |-> FALSE, value |-> ""]
    /\ version_key = 0
    /\ version_valid = FALSE

NewAnvil1444(parent) ==
    /\ iface = "none"
    /\ iface' = "anvil_1444"
    /\ parent_features' = parent
    /\ features' = anvil_1444_init(parent)
    /\ UNCHANGED <<compound, chunk_status, version_key, version_valid>>
    /\ UNCHANGED <<anvil_vars, palette_vars, schematic_vars>>

NewLevelDB21(parent) ==
    /\ iface = "none"
    /\ iface' = "leveldb_21"
    /\ parent_features' = parent
    /\ features' = leveldb_21_init(parent)
    /\ UNCHANGED <<compound, chunk_status, version_key, version_valid>>
    /\ UNCHANGED <<anvil_vars, palette_vars, schematic_vars>>

NewLevelDB9(parent) ==
    /\ iface = "none"
    /\ iface' = "leveldb_9"
    /\ parent_features' = parent
    /\ features' = leveldb_9_init(parent)
    /\ UNCHANGED <<compound, chunk_status, version_key, version_valid>>
    /\ UNCHANGED <<anvil_vars, palette_vars, schematic_vars>>

MinorIsValid(key) ==
    /\ iface = "anvil_1444"
    /\ version_key' = key
    /\ version_valid' = minor_is_valid(key)
    /\ UNCHANGED <<iface, features, parent_features, compound, chunk_status>>
    /\ UNCHANGED <<anvil_vars, palette_vars, schematic_vars>>

DecodeStatus ==
    /\ iface = "anvil_1444"
    /\ ~chunk_status.assigned
    /\ chunk_status' = [assigned |-> TRUE, value |-> decode_status(compound)]
    /\ UNCHANGED <<iface, features, parent_features, compound, version_key, version_valid>>
    /\ UNCHANGED <<anvil_vars, palette_vars, schematic_vars>>

IfaceNext ==
    \/ \E parent \in ParentTables(AnvilParentOptions) : NewAnvil1444(parent)
    \/ \E parent \in ParentTables(LevelDBParentOptions) : NewLevelDB21(parent)
    \/ \E parent \in ParentTables(LevelDBParentOptions) : NewLevelDB9(parent)
    \/ \E key \in VersionKeys : MinorIsValid(key)
    \/ DecodeStatus

----------------------------------------------------------------------------
(* SchematicWriter and SchematicReader                                     *)

MaxSizeX == 5

MaxSizeYZ == 2

MaxWrites == 2

BlockIds == {255, 256, 4095}

ShapeCells(shape) == (0..shape[1] - 1) \X (0..shape[2] - 1) \X (0..shape[3] - 1)

ShapeSize(shape) == shape[1] * shape[2] * shape[3]

\* the cell at position f (from 0) of the array in C order
CellAt(shape, f) ==
    <<f \div (shape[2] * shape[3]), (f \div shape[3]) % shape[2], f % shape[3]>>

\* array.ravel() / the bytes a TAG_Byte_Array holds, positions from 1
flatten(shape, array) == [f \in 1..ShapeSize(shape) |-> array[CellAt(shape, f - 1)]]

\* the shape of a + b under numpy's broadcasting of the first axis, -1 when it raises
BroadcastRows(a, b) ==
    IF a = b THEN a
    ELSE IF a = 1 THEN b
    ELSE IF b = 1 THEN a
    ELSE -1

\* add_blocks[::2] + (add_blocks[1::2] << 4), add_blocks = (self._blocks & 0xF00) >> 8
add_blocks_bytes(shape, blocks) ==
    LET add(c)  == (blocks[c] \div 256) % 16
        evens   == (shape[1] + 1) \div 2
        odds    == shape[1] \div 2
        rows    == BroadcastRows(evens, odds)
        out     == <<rows, shape[2], shape[3]>>
        low(c)  == add(<<2 * (IF evens = 1 THEN 0 ELSE c[1]), c[2], c[3]>>)
        high(c) == add(<<2 * (IF odds = 1 THEN 0 ELSE c[1]) + 1, c[2], c[3]>>)
    IN IF rows < 0 THEN [ok |-> FALSE, bytes |-> <<>>]
       ELSE [ok |-> TRUE,
             bytes |-> [f \in 1..ShapeSize(out) |->
                          low(CellAt(out, f - 1)) + high(CellAt(out, f - 1)) * 16]]

NoFile == [saved |-> FALSE, Blocks |-> <<>>, HasAddBlocks |-> FALSE, AddBlocks |-> <<>>]

\* SchematicWriter.close: the Blocks and AddBlocks tags of the saved file
schematic_close(shape, blocks) ==
    LET ids == flatten(shape, blocks)
        low_bytes == [f \in DOMAIN ids |-> ids[f] % 256]
        added == add_blocks_bytes(shape, blocks)
    IN IF \A f \in DOMAIN ids : ids[f] <= 255
       THEN [saved |-> TRUE, Blocks |-> low_bytes, HasAddBlocks |-> FALSE, AddBlocks |-> <<>>]
       ELSE IF ~added.ok THEN NoFile
       ELSE [saved |-> TRUE, Blocks |-> low_bytes, HasAddBlocks |-> TRUE,
             AddBlocks |-> added.bytes]

\* numpy.concatenate([[add & 0xF], [(add & 0xF0) >> 4]]).T.ravel()
interleave(add) ==
    [k \in 1..2 * Len(add) |->
        IF k % 2 = 1 THEN add[(k + 1) \div 2] % 16 ELSE (add[k \div 2] \div 16) % 16]

\* SchematicReader.__init__: the block array of shape (Width, Height, Length)
schematic_read(shape, file) ==
    LET nibbles == interleave(file.AddBlocks)
        ids == IF file.HasAddBlocks
               THEN [f \in DOMAIN file.Blocks |-> file.Blocks[f] + nibbles[f] * 256]
               ELSE file.Blocks
    IN IF file.HasAddBlocks /\ Len(nibbles) # Len(file.Blocks)
       THEN [ok |-> FALSE, blocks |-> <<>>]
       ELSE [ok |-> TRUE,
             blocks |-> [c \in ShapeCells(shape) |->
                           ids[(c[1] * shape[2] + c[2]) * shape[3] + c[3] + 1]]]

Shapes == (1..MaxSizeX) \X (1..MaxSizeYZ) \X (1..MaxSizeYZ)

SchematicIdle ==
    /\ w_shape = <<1, 1, 1>>
    /\ w_blocks = <<>>
    /\ w_writes = 0
    /\ s_file = NoFile
    /\ r_blocks = [ok |-> FALSE, blocks |-> <<>>]
    /\ s_pc = "idle"

\* SchematicWriter.__init__: numpy.zeros(selection.shape)
SchematicInit ==
    /\ w_shape \in Shapes
    /\ w_blocks = [c \in ShapeCells(w_shape) |-> 0]
    /\ w_writes = 0
    /\ s_file = NoFile
    /\ r_blocks = [ok |-> FALSE, blocks |-> <<>>]
    /\ s_pc = "open"

\* SchematicWriter.write of a section of one block
Write(cell, id) ==
    /\ s_pc = "open"
    /\ w_writes < MaxWrites
    /\ w_blocks' = [w_blocks EXCEPT ![cell] = id]
    /\ w_writes' = w_writes + 1
    /\ UNCHANGED <<w_shape, s_file, r_blocks, s_pc>>
    /\ UNCHANGED <<anvil_vars, palette_vars, iface_vars>>

Close ==
    /\ s_pc = "open"
    /\ s_file' = schematic_close(w_shape, w_blocks)
    /\ s_pc' = IF s_file'.saved THEN "closed" ELSE "close_failed"
    /\ UNCHANGED <<w_shape, w_blocks, w_writes, r_blocks>>
    /\ UNCHANGED <<anvil_vars, palette_vars, iface_vars>>

Read ==
    /\ s_pc = "closed"
    /\ r_blocks' = schematic_read(w_shape, s_file)
    /\ s_pc' = IF r_blocks'.ok THEN "read" ELSE "read_failed"
    /\ UNCHANGED <<w_shape, w_blocks, w_writes, s_file>>
    /\ UNCHANGED <<anvil_vars, palette_vars, iface_vars>>

SchematicNext ==
    \/ \E cell \in ShapeCells(w_shape), id \in BlockIds : Write(cell, id)
    \/ Close
    \/ Read

----------------------------------------------------------------------------
(* The specifications                                                      *)

Init == AnvilInit /\ PaletteIdle /\ IfaceIdle /\ SchematicIdle

Next == AnvilNext

Spec == Init /\ [][Next]_vars

PaletteSpecInit == AnvilIdle /\ PaletteInit /\ IfaceIdle /\ SchematicIdle

PaletteSpec == PaletteSpecInit /\ [][PaletteNext]_vars

InterfaceSpecInit == AnvilIdle /\ PaletteIdle /\ IfaceInit /\ SchematicIdle

InterfaceSpec == InterfaceSpecInit /\ [][IfaceNext]_vars

SchematicSpecInit == AnvilIdle /\ PaletteIdle /\ IfaceIdle /\ SchematicInit

SchematicSpec == SchematicSpecInit /\ [][SchematicNext]_vars

----------------------------------------------------------------------------
(* What the claims are stated with                                         *)

NamedAir(block) == block.namespace = <<"minecraft">> /\ block.base_name = <<"air">>

\* the sections of the save that carry a Palette
WithPalette == {j \in DOMAIN disk : disk[j].HasPalette}

\* the Blocks a section's palette entries stand for
LocalPalette(j) == decode_palette(disk[j].palette).blocks

\* the index the save stores at position f (from 0) of section j, in y, z, x order
StoredIndex(j, f) == disk[j].cells[f + 1]

\* whether every stored index of section j points into its palette
IndicesValid(j) == \A f \in 0..SectionCells - 1 : StoredIndex(j, f) < Len(disk[j].palette)

\* the cell of chunk.blocks[cy], indexed x, y, z, that position f = (y * S + z) * S + x holds
DiskCell(f) ==
    <<f % SectionSide, f \div (SectionSide * SectionSide), (f \div SectionSide) % SectionSide>>

PaletteUnion ==
    {AirBlock} \cup UNION {{LocalPalette(j)[i] : i \in DOMAIN LocalPalette(j)} : j \in WithPalette}

HasBadName(j) == \E i \in DOMAIN disk[j].palette :
                     \A k \in DOMAIN disk[j].palette[i].Name : disk[j].palette[i].Name[k] # Colon

\* the least k with 2^k >= n
CeilLog2(n) == CHOOSE k \in 0..12 : Pow2(k) >= n /\ (k = 0 \/ Pow2(k - 1) < n)

\* the Blocks an emitted section holds, by position (from 1), read the way the
\* decoder reads a section: width from the Palette's length, layout from the format
EmittedBlocks(cy) ==
    LET emitted == decode_palette(sections[cy].Palette).blocks
        indices == decode_long_array(sections[cy].BlockStates, SectionCells,
                       decode_bits(Len(emitted)), enc_format = "compact").values
    IN [f \in 1..SectionCells |-> emitted[indices[f] + 1]]

\* the Blocks the save holds in section j, by position (from 1)
StoredBlocks(j) ==
    LET local == LocalPalette(j)
    IN [f \in 1..SectionCells |-> local[StoredIndex(j, f - 1) + 1]]

HasBlockData(cy) ==
    cy \in DOMAIN sections /\ (sections[cy].HasBlockStates \/ sections[cy].HasPalette)

FullyEmitted(cy) ==
    cy \in DOMAIN sections /\ sections[cy].HasBlockStates /\ sections[cy].HasPalette

\* the Blocks of the sub-chunk cy of the decoded chunk
SubChunkBlocks(cy) == {np_palette[chunk.blocks[cy][c] + 1] : c \in Coords}

InRange(cy) == enc_range[1] <= cy /\ cy < enc_range[2]

----------------------------------------------------------------------------
(* C1: _decode_blocks returns a palette that holds exactly the distinct    *)
(* Blocks of minecraft:air and all section palettes, each once, and every  *)
(* cell of chunk.blocks indexes the Block its section palette holds at the *)
(* index the save stores for that cell.                                    *)
C1_PaletteMerge ==
    pc \in {"decoded", "encoded"} =>
        /\ {np_palette[i] : i \in DOMAIN np_palette} = PaletteUnion
        /\ Len(np_palette) = Cardinality(PaletteUnion)
        /\ \A j \in WithPalette :
              LET local == LocalPalette(j) IN
              /\ disk[j].cy \in DOMAIN chunk.blocks
              /\ \A f \in 0..SectionCells - 1 :
                    StoredIndex(j, f) < Len(local) =>
                        np_palette[chunk.blocks[disk[j].cy][DiskCell(f)] + 1]
                            = local[StoredIndex(j, f) + 1]

\* two sections with palettes that share Blocks were merged
C1_Witness ==
    /\ pc = "decoded"
    /\ Cardinality(WithPalette) = 2
    /\ \A j \in WithPalette : Len(disk[j].palette) >= 2
    /\ \E j \in WithPalette, k \in WithPalette :
          j # k /\ \E i \in DOMAIN LocalPalette(j), m \in DOMAIN LocalPalette(k) :
                       LocalPalette(j)[i] = LocalPalette(k)[m] /\ LocalPalette(j)[i] # AirBlock
    /\ Len(np_palette) > 2

(* C2: decoding a section and encoding the result under the same format    *)
(* ("compact" or "1.16") gives a section that holds, at every position of  *)
(* the save's order, the Block the original held there; the transpose of   *)
(* the encoder undoes the transpose of the decoder.                        *)
C2_RoundTrip ==
    (pc = "encoded" /\ enc_format = long_array_format /\ enc_format \in ValidFormats) =>
        \A j \in WithPalette :
            (/\ InRange(disk[j].cy)
             /\ IndicesValid(j)
             /\ \E f \in 1..SectionCells : ~NamedAir(StoredBlocks(j)[f]))
            => /\ FullyEmitted(disk[j].cy)
               /\ EmittedBlocks(disk[j].cy) = StoredBlocks(j)
               /\ transpose(transpose(reshape(disk[j].cells), DecodeAxes), EncodeAxes)
                     = reshape(disk[j].cells)

\* a section with 17 palette entries (5 bits, entries across word borders) went round
C2_Witness ==
    /\ pc = "encoded"
    /\ enc_format = "compact"
    /\ long_array_format = "compact"
    /\ \E j \in WithPalette :
          /\ InRange(disk[j].cy)
          /\ FullyEmitted(disk[j].cy)
          /\ Len(sections[disk[j].cy].Palette) > 16

(* C3: after _encode_blocks no sub-chunk in [cy_min, cy_max) that holds    *)
(* only the minecraft:air block has block data in the output, and every    *)
(* sub-chunk there with a non-air block has both BlockStates and Palette.  *)
C3_AirOmitted ==
    pc = "encoded" =>
        \A cy \in DOMAIN chunk.blocks :
            InRange(cy) =>
                /\ (Cardinality(SubChunkBlocks(cy)) = 1
                        /\ \A b \in SubChunkBlocks(cy) : NamedAir(b))
                   => ~HasBlockData(cy)
                /\ (\E b \in SubChunkBlocks(cy) : ~NamedAir(b)) => FullyEmitted(cy)

\* the same under the two formats the encoder has a branch for
C3_UnderKnownFormats == enc_format \in ValidFormats => C3_AirOmitted

(* C7 as claimed: a palette entry whose Name lacks ":" in any section, or  *)
(* a long_array_format that is neither "compact" nor "1.16", makes         *)
(* _decode_blocks end in an error with chunk.blocks not assigned.          *)
C7_AsClaimed ==
    (pc # "loaded" /\ ((\E j \in WithPalette : HasBadName(j))
                       \/ long_array_format \notin ValidFormats))
    => (pc = "failed" /\ ~chunk.has_blocks /\ np_palette = <<>>)

(* C7 amended: a palette entry whose Name lacks ":" in any section, or a   *)
(* long_array_format that is neither "compact" nor "1.16" when at least    *)
(* one section has a Palette, makes _decode_blocks end in an error with    *)
(* chunk.blocks not assigned and no palette returned.                      *)
C7_FailedDecodeAtomic ==
    (pc # "loaded" /\ \E j \in WithPalette :
                          HasBadName(j) \/ long_array_format \notin ValidFormats)
    => (pc = "failed" /\ ~chunk.has_blocks /\ np_palette = <<>>)

\* a section was decoded, and popped, before the one with the bad name raised
C7_Witness ==
    /\ pc = "failed"
    /\ long_array_format \in ValidFormats
    /\ \E j \in WithPalette, k \in WithPalette :
          /\ j < k
          /\ disk[j].flaw = "none"
          /\ HasBadName(k)
          /\ ~chunk_sections[j].HasBlockStates
    /\ ~chunk.has_blocks

(* C8: every section _encode_blocks emits with n palette entries was       *)
(* packed with the width the decoder derives from n,                       *)
(* max(4, (n-1).bit_length()) = max(4, ceil(log2(n))), every palette entry *)
(* being referenced, and in the layout the decoder reads for the format.   *)
C8_WidthsAgree ==
    pc = "encoded" =>
        \A cy \in DOMAIN sections :
            sections[cy].HasBlockStates =>
                LET n == Len(sections[cy].Palette) IN
                /\ 1 <= n /\ n <= SectionCells
                /\ SeqMax(packed[cy].values) = n - 1
                /\ packed[cy].bits = decode_bits(n)
                /\ decode_bits(n) = Max2(4, CeilLog2(n))
                /\ packed[cy].dense = (enc_format = "compact")
                /\ decode_long_array(sections[cy].BlockStates, SectionCells,
                                     decode_bits(n), enc_format = "compact")
                      = [ok |-> TRUE, values |-> packed[cy].values]

\* a section with exactly 16 palette entries was emitted word-aligned
C8_Witness ==
    /\ pc = "encoded"
    /\ enc_format = "1.16"
    /\ \E cy \in DOMAIN sections :
          sections[cy].HasBlockStates /\ Len(sections[cy].Palette) = 16

(* C4 as claimed: for any Block, _decode_palette(_encode_palette([block]))  *)
(* is the one Block, equal to the original.                                *)
C4_AsClaimed ==
    p_pc = "decoded" => p_out = [ok |-> TRUE, blocks |-> <<p_block>>]

(* C4 amended: for any Block whose namespace holds no ":",                 *)
(* _decode_palette(_encode_palette([block])) is the one Block, with the    *)
(* namespace, the base_name and the property map of the original.          *)
C4_BlockRoundTrip ==
    (p_pc = "decoded" /\ \A k \in DOMAIN p_block.namespace : p_block.namespace[k] # Colon)
    => /\ p_out.ok
       /\ Len(p_out.blocks) = 1
       /\ p_out.blocks[1].namespace = p_block.namespace
       /\ p_out.blocks[1].base_name = p_block.base_name
       /\ p_out.blocks[1].properties = p_block.properties

\* a Block with ":" in its base name and two properties came back
C4_Witness ==
    /\ p_pc = "decoded"
    /\ p_block.namespace = <<"mod">>
    /\ p_block.base_name = <<"oak", ":", "log">>
    /\ Cardinality(p_block.properties) = 2
    /\ p_out.blocks = <<p_block>>

(* C5: _decode_status sets chunk.status to "full" when the compound has no *)
(* Status string field and to the stored string when it has one; it never  *)
(* leaves chunk.status unset.                                              *)
C5_StatusDefault ==
    chunk_status.assigned =>
        /\ chunk_status.value \in {"", "empty", "features", "full"}
        /\ (compound.HasStatus /\ compound.Status.kind = "TAG_String")
              => chunk_status.value = compound.Status.value
        /\ ~(compound.HasStatus /\ compound.Status.kind = "TAG_String")
              => chunk_status.value = "full"

\* a compound without Status was decoded
C5_Witness ==
    /\ chunk_status.assigned
    /\ ~compound.HasStatus
    /\ chunk_status.value = "full"

(* C6: minor_is_valid is true exactly for the keys of [1444, 1466): true   *)
(* for 1450, false for 1443, 1466, 1470 and 2000.                          *)
C6_VersionRange ==
    version_key # 0 =>
        /\ version_valid <=> version_key \in 1444..1465
        /\ version_key = 1450 => version_valid
        /\ version_key \in {1443, 1466, 1470, 2000} => ~version_valid

\* the last key of the range was accepted
C6_Witness == version_key = 1465 /\ version_valid

(* C9: after a derived constructor every feature it sets holds the derived *)
(* value and every other feature holds the value the parent constructor    *)
(* assigned.                                                               *)
C9_FeatureFold ==
    /\ iface = "anvil_1444" =>
          /\ features["long_array_format"] = "compact"
          /\ features["blocks"] = "Sections|(BlockStates,Palette)"
          /\ features["status"] = "Java_13"
          /\ features["light_populated"] = "None"
          /\ features["terrain_populated"] = "None"
          /\ features["liquid_ticks"] = "list"
          /\ features["liquids_to_be_ticked"] = "16list|list"
          /\ features["to_be_ticked"] = "16list|list"
          /\ features["post_processing"] = "16list|list"
          /\ features["structures"] = "compound"
          /\ DOMAIN features = DOMAIN parent_features
          /\ \A f \in {"data_version", "last_update", "entities", "tile_ticks"} :
                features[f] = parent_features[f]
    /\ iface = "leveldb_21" =>
          /\ features["chunk_version"] = 21
          /\ DOMAIN features = DOMAIN parent_features
          /\ \A f \in DOMAIN parent_features \ {"chunk_version"} :
                features[f] = parent_features[f]
    /\ iface = "leveldb_9" =>
          /\ features["chunk_version"] = 9
          /\ features["entity_format"] = "namespace-str-identifier"
          /\ DOMAIN features = DOMAIN parent_features
          /\ \A f \in DOMAIN parent_features \ {"chunk_version", "entity_format"} :
                features[f] = parent_features[f]

\* the parent had set long_array_format to another value, and one more feature
C9_Witness ==
    /\ iface = "anvil_1444"
    /\ parent_features["long_array_format"] = "1.16"
    /\ features["long_array_format"] = "compact"
    /\ parent_features["data_version"] = "None"
    /\ features["data_version"] = "None"

(* C10: the block ids SchematicReader rebuilds from Blocks and AddBlocks   *)
(* equal the ids written with SchematicWriter.write and saved by close(),  *)
(* at every position, for every shape and every id below 4096.             *)
C10_IdsRoundTrip ==
    s_pc \in {"close_failed", "read", "read_failed"} =>
        (s_pc = "read" /\ r_blocks.blocks = w_blocks)

\* the same for ids that all fit the Blocks byte
C10_LowIdsRoundTrip ==
    (s_pc \in {"close_failed", "read", "read_failed"}
        /\ \A c \in DOMAIN w_blocks : w_blocks[c] <= 255)
    => (s_pc = "read" /\ r_blocks.blocks = w_blocks)

============================================================================
